---- MODULE Spec2Model ----
(***************************************************************************)
(* Model of tixelbox/prelude.py: the storage configuration globals         *)
(* (init_storage / get_storage), the ffmpeg_extract wrapper with the       *)
(* Video / Audio objects that call it, the tile() grid computation and     *)
(* scanner_ingest().                                                       *)
(*                                                                         *)
(* Python values: None is the empty tuple and a present value x is <<x>>,  *)
(* so that "x is None" is x = None.  The module is Python 2 code           *)
(* (dict.iteritems at prelude.py:119), hence "/" on ints is floor          *)
(* division.                                                               *)
(***************************************************************************)
EXTENDS Integers, Sequences, FiniteSets, TLC

None == <<>>
Some(x) == <<x>>

\* ---- bounds -------------------------------------------------------------
MaxInits == 3       \* explicit init_storage calls in one behaviour
MaxTemp == 2        \* temporary files created in one behaviour
NumBuckets == 2     \* distinct bucket names
NumPaths == 3       \* distinct video paths handed to scanner_ingest
MaxVideos == 2      \* length of the list handed to scanner_ingest
MaxImgs == 6        \* length of the list handed to tile
MaxDim == 3         \* largest rows / cols argument handed to tile

BucketNames == <<"b1", "b2", "b3", "b4">>
Buckets == {BucketNames[i] : i \in 1..NumBuckets}
BucketArgs == {None} \cup {Some(b) : b \in Buckets}

PathNames == <<"v1.mp4", "v2.mp4", "v3.mp4", "v4.mp4", "v5.mp4">>
Paths == {PathNames[i] : i \in 1..NumPaths}

TmpNames == <<"tmp1", "tmp2", "tmp3", "tmp4">>

VARIABLES
    \* storage globals and the objects built on them
    STORAGE,        \* None or Some(backend)
    LOCAL_STORAGE,  \* None, Some(TRUE) or Some(FALSE)
    lastInit,       \* None before any init_storage call, then Some(bucket argument) of the latest
    nInits,         \* number of init_storage calls so far (backend identity)
    hasVideo,       \* a Video object has been constructed
    audios,         \* paths of the Audio objects constructed so far
    tempFiles,      \* number of NamedTemporaryFile files created so far
    op,             \* the operation that ran last
    args,           \* None, or Some(the arguments of the ffmpeg_extract it reached)
    ret,            \* its outcome: [status, value]
    runs,           \* exit statuses of the ffmpeg processes it launched, in order
    \* tile
    imgs,           \* the caller's list (tile extends it in place)
    imgs0,          \* the list as it was when tile was called
    rows, cols,     \* the rows / cols arguments: None or Some(k)
    tile_pc,        \* "call" before tile runs, "done" after
    tileRet,        \* outcome of tile: [status, rows, cols, grid]
    \* scanner_ingest
    tables,         \* names of the tables in db
    videos,         \* the list handed to the latest scanner_ingest
    ingested,       \* None, or Some(argument of the db.ingest_videos call it made)
    complete        \* that db.ingest_videos call created every table it was asked for

storageVars == <<STORAGE, LOCAL_STORAGE, lastInit, nInits, hasVideo, audios,
                 tempFiles, op, args, ret, runs>>
tileVars == <<imgs, imgs0, rows, cols, tile_pc, tileRet>>
ingestVars == <<tables, videos, ingested, complete>>
vars == <<storageVars, tileVars, ingestVars>>

\* ======================================================================
\* Storage configuration
\* ======================================================================

Returned(v) == [status |-> "returned", value |-> v]
Raised(e) == [status |-> "raised", value |-> e]

\* storehouse.StorageBackend.make_from_config(storage_config): a fresh
\* backend object for every call, identified by the call's ordinal.
make_backend(config, bucket, id) == [config |-> config, bucket |-> bucket, id |-> id]

\* prelude.py:49-58
init_storage(bucket) ==
    /\ nInits' = nInits + 1
    /\ lastInit' = Some(bucket)
    /\ IF bucket # None
         THEN /\ LOCAL_STORAGE' = Some(FALSE)
              /\ STORAGE' = Some(make_backend("gcs", bucket, nInits + 1))
         ELSE /\ LOCAL_STORAGE' = Some(TRUE)
              /\ STORAGE' = Some(make_backend("posix", None, nInits + 1))

\* get_storage re-initialising whenever storage is not local
get_storage_reinit ==
    IF STORAGE = None \/ LOCAL_STORAGE = Some(FALSE)
      THEN init_storage(None)
      ELSE UNCHANGED <<STORAGE, LOCAL_STORAGE, lastInit, nInits>>

\* prelude.py:61-65; the value returned is STORAGE'
get_storage ==
    IF STORAGE = None
      THEN init_storage(None)
      ELSE UNCHANGED <<STORAGE, LOCAL_STORAGE, lastInit, nInits>>

\* the test written as "LOCAL_STORAGE is False"
NotLocal_is_false(ls) == ls = Some(FALSE)

\* prelude.py:74, "not LOCAL_STORAGE": None and False are both falsy
NotLocal(ls) == ls = None \/ ls = Some(FALSE)

\* prelude.py:68-70, the four fields of HH:MM:SS.mmm for t in whole seconds
ffmpeg_fmt_time(t) ==
    <<t \div 3600, (t \div 60) % 60, t % 60, (t * 1000) % 1000>>

\* a check_call that launches ffmpeg again after a failed run
check_call_retry(status) ==
    IF status = 0 THEN [launched |-> <<0>>, ok |-> TRUE]
                  ELSE [launched |-> <<status, 0>>, ok |-> TRUE]

\* prelude.py:91-95, sp.check_call: one process; CalledProcessError on a
\* non-zero exit status.
check_call(status) == [launched |-> <<status>>, ok |-> status = 0]

\* prelude.py:82-92, the command line handed to the shell
ffmpeg_cmd(input_path, output_path, segment) ==
    IF segment # None
      THEN [ss |-> Some(ffmpeg_fmt_time(segment[1][1])), i |-> input_path,
            t |-> Some(ffmpeg_fmt_time(segment[1][2] - segment[1][1])),
            out |-> output_path]
      ELSE [ss |-> None, i |-> input_path, t |-> None, out |-> output_path]

RaisedNotLocal == Raised("Only works on locally stored files right now.")

\* prelude.py:73-97.  status is the exit status of the ffmpeg process.
ffmpeg_extract(input_path, output_ext, output_path, segment, status) ==
    /\ args' = Some([input_path |-> input_path, output_ext |-> output_ext,
                     output_path |-> output_path, segment |-> segment])
    /\ IF NotLocal(LOCAL_STORAGE)
         THEN /\ ret' = RaisedNotLocal
              /\ runs' = <<>>
              /\ UNCHANGED tempFiles
         ELSE IF output_path = None /\ output_ext = None
           THEN /\ ret' = Raised("AssertionError")
                /\ runs' = <<>>
                /\ UNCHANGED tempFiles
           ELSE LET mkTemp == output_path = None
                    out == IF mkTemp THEN TmpNames[tempFiles + 1] ELSE output_path[1]
                    cmd == ffmpeg_cmd(input_path, out, segment)
                    call == check_call(status)
                IN /\ tempFiles' = IF mkTemp THEN tempFiles + 1 ELSE tempFiles
                   /\ runs' = call.launched
                   /\ ret' = IF call.ok THEN Returned(cmd.out)
                                        ELSE Raised("CalledProcessError")

\* ---- inputs ---------------------------------------------------------------
ExtArgs == {None, Some(".wav")}
OutArgs == {None, Some("out.mp4")}
SegArgs == {None, Some(<<61, 3725>>)}
Statuses == {0, 1}
AudioPaths == {"a.wav"}

\* a call may create a temporary file only while names remain
TempRoom(output_path) == output_path # None \/ tempFiles < MaxTemp

\* ---- operations -----------------------------------------------------------
CallInitStorage ==
    \E bucket \in BucketArgs :
        /\ nInits < MaxInits
        /\ init_storage(bucket)
        /\ op' = "init_storage"
        /\ ret' = Returned("None")
        /\ runs' = <<>>
        /\ args' = None
        /\ UNCHANGED <<hasVideo, audios, tempFiles>>
        /\ UNCHANGED <<tileVars, ingestVars>>

CallGetStorage ==
    /\ get_storage
    /\ op' = "get_storage"
    /\ ret' = Returned(STORAGE')
    /\ runs' = <<>>
    /\ args' = None
    /\ UNCHANGED <<hasVideo, audios, tempFiles>>
    /\ UNCHANGED <<tileVars, ingestVars>>

\* prelude.py:179-182
NewVideo ==
    /\ get_storage
    /\ hasVideo' = TRUE
    /\ op' = "Video"
    /\ ret' = Returned("Video")
    /\ runs' = <<>>
    /\ args' = None
    /\ UNCHANGED <<audios, tempFiles>>
    /\ UNCHANGED <<tileVars, ingestVars>>

\* prelude.py:231-232, an Audio built directly from a path
NewAudio ==
    \E p \in AudioPaths :
        /\ audios' = audios \cup {p}
        /\ op' = "Audio"
        /\ ret' = Returned("Audio")
        /\ runs' = <<>>
        /\ args' = None
        /\ UNCHANGED <<STORAGE, LOCAL_STORAGE, lastInit, nInits, hasVideo, tempFiles>>
        /\ UNCHANGED <<tileVars, ingestVars>>

\* a direct call of ffmpeg_extract
CallFfmpegExtract ==
    \E ext \in ExtArgs, out \in OutArgs, seg \in SegArgs, status \in Statuses :
        /\ TempRoom(out)
        /\ ffmpeg_extract("in.mp4", ext, out, seg, status)
        /\ op' = "ffmpeg_extract"
        /\ UNCHANGED <<STORAGE, LOCAL_STORAGE, lastInit, nInits, hasVideo, audios>>
        /\ UNCHANGED <<tileVars, ingestVars>>

\* prelude.py:221-223
VideoExtract ==
    \E ext \in ExtArgs, out \in OutArgs, seg \in SegArgs, status \in Statuses :
        /\ hasVideo
        /\ TempRoom(out)
        /\ ffmpeg_extract("video.mp4", ext, out, seg, status)
        /\ op' = "Video.extract"
        /\ UNCHANGED <<STORAGE, LOCAL_STORAGE, lastInit, nInits, hasVideo, audios>>
        /\ UNCHANGED <<tileVars, ingestVars>>

\* prelude.py:217-219
VideoAudio ==
    \E status \in Statuses :
        /\ hasVideo
        /\ TempRoom(None)
        /\ ffmpeg_extract("video.mp4", Some(".wav"), None, None, status)
        /\ op' = "Video.audio"
        /\ audios' = IF ret'.status = "returned" THEN audios \cup {ret'.value}
                                                 ELSE audios
        /\ UNCHANGED <<STORAGE, LOCAL_STORAGE, lastInit, nInits, hasVideo>>
        /\ UNCHANGED <<tileVars, ingestVars>>

\* prelude.py:234-236
AudioExtract ==
    \E a \in audios, ext \in ExtArgs, out \in OutArgs, seg \in SegArgs,
       status \in Statuses :
        /\ TempRoom(out)
        /\ ffmpeg_extract(a, ext, out, seg, status)
        /\ op' = "Audio.extract"
        /\ UNCHANGED <<STORAGE, LOCAL_STORAGE, lastInit, nInits, hasVideo, audios>>
        /\ UNCHANGED <<tileVars, ingestVars>>

InitStorageVars ==
    /\ STORAGE = None
    /\ LOCAL_STORAGE = None
    /\ lastInit = None
    /\ nInits = 0
    /\ hasVideo = FALSE
    /\ audios = {}
    /\ tempFiles = 0
    /\ op = "import"
    /\ ret = Returned("None")
    /\ runs = <<>>
    /\ args = None

\* ======================================================================
\* tile
\* ======================================================================

Shapes == {<<1, 1>>, <<2, 3>>}

\* an input frame (px identifies its content) and np.zeros(shape)
Img(shape, px) == [shape |-> shape, px |-> px]
zeros(shape) == Img(shape, 0)

\* prelude.py:157, int(math.sqrt(n))
isqrt(n) == CHOOSE r \in 0..n : r * r <= n /\ (r + 1) * (r + 1) > n

\* the division without rounding up
ceil_div_floor(n, d) == n \div d

\* prelude.py:160,162, (n + d - 1) / d with Python 2 floor division, d > 0
ceil_div(n, d) == (n + d - 1) \div d

\* Python slice s[a:b] for 0 <= a <= b (indices clamp to the length)
Slice(s, a, b) ==
    LET hi == IF b < Len(s) THEN b ELSE Len(s)
    IN IF a >= hi THEN <<>> ELSE SubSeq(s, a + 1, hi)

\* prelude.py:167, imgs.extend([np.zeros(imgs[0].shape ...) for _ in range(diff)])
extend_black(list, diff) ==
    IF diff > 0 THEN list \o [k \in 1..diff |-> zeros(list[1].shape)] ELSE list

TileRaised(e) == [status |-> "raised", error |-> e, rows |-> 0, cols |-> 0, grid |-> <<>>]

\* prelude.py:154-169.  Yields <<the caller's list afterwards, outcome>>.
tile(list, rowsArg, colsArg) ==
    LET n == Len(list)
        r0 == IF rowsArg = None /\ colsArg = None THEN Some(isqrt(n)) ELSE rowsArg
        divisor == IF r0 = None THEN colsArg[1] ELSE r0[1]
    IN IF divisor = 0
         THEN <<list, TileRaised("ZeroDivisionError")>>
         ELSE LET r == IF r0 = None THEN ceil_div(n, divisor) ELSE r0[1]
                  c == IF r0 = None THEN colsArg[1] ELSE ceil_div(n, divisor)
                  diff == r * c - n
                  padded == IF diff # 0 THEN extend_black(list, diff) ELSE list
                  cells == [i \in 1..r |-> Slice(padded, (i - 1) * c, i * c)]
              IN IF r = 0 \/ \E i \in 1..r : cells[i] = <<>>
                   THEN <<padded, TileRaised("ValueError")>>
                   ELSE <<padded, [status |-> "returned", error |-> "", rows |-> r,
                                   cols |-> c, grid |-> cells]>>

DimArgs == {None} \cup {Some(k) : k \in 0..MaxDim}
ImgLists == UNION {{[i \in 1..n |-> Img(sh, i)] : sh \in Shapes} : n \in 0..MaxImgs}

\* tile(imgs, rows, cols), also reached through Video.montage (prelude.py:225-227)
CallTile ==
    /\ tile_pc = "call"
    /\ LET res == tile(imgs, rows, cols)
       IN /\ imgs' = res[1]
          /\ tileRet' = res[2]
    /\ tile_pc' = "done"
    /\ UNCHANGED <<imgs0, rows, cols>>
    /\ UNCHANGED <<storageVars, ingestVars>>

InitTileVars ==
    /\ imgs0 \in ImgLists
    /\ imgs = imgs0
    /\ rows \in DimArgs
    /\ cols \in DimArgs
    /\ tile_pc = "call"
    /\ tileRet = TileRaised("")

IdleTileVars ==
    /\ imgs0 = <<>>
    /\ imgs = <<>>
    /\ rows = None
    /\ cols = None
    /\ tile_pc = "idle"
    /\ tileRet = TileRaised("")

\* ======================================================================
\* scanner_ingest
\* ======================================================================

\* prelude.py:178-188, the part of a Video that scanner_ingest reads
MkVideo(p) == [path |-> p]
path(v) == v.path
scanner_name(v) == path(v)

\* db.has_table(name)
has_table(db, name) == name \in db

\* the list left unfiltered
without_table_all(db, vs) == vs

\* prelude.py:173, [v for v in videos if not db.has_table(v.scanner_name())]
RECURSIVE without_table(_, _)
without_table(db, vs) ==
    IF vs = <<>> THEN <<>>
    ELSE IF ~has_table(db, scanner_name(Head(vs)))
      THEN <<Head(vs)>> \o without_table(db, Tail(vs))
      ELSE without_table(db, Tail(vs))

\* prelude.py:175, [(v.scanner_name(), v.path()) for v in videos]
ingest_args(vs) == [i \in 1..Len(vs) |-> <<scanner_name(vs[i]), path(vs[i])>>]

VideoLists == UNION {[1..n -> {MkVideo(p) : p \in Paths}] : n \in 0..MaxVideos}

\* prelude.py:172-175.  failed: the names db.ingest_videos could not ingest.
scanner_ingest(vs, failed) ==
    LET todo == without_table(tables, vs)
        names == {scanner_name(todo[i]) : i \in 1..Len(todo)}
    IN IF Len(todo) > 0
         THEN /\ failed \subseteq names
              /\ ingested' = Some(ingest_args(todo))
              /\ tables' = tables \cup (names \ failed)
              /\ complete' = (failed = {})
         ELSE /\ failed = {}
              /\ ingested' = None
              /\ complete' = TRUE
              /\ UNCHANGED tables

CallScannerIngest ==
    \E vs \in VideoLists, failed \in SUBSET Paths :
        /\ scanner_ingest(vs, failed)
        /\ videos' = vs
        /\ UNCHANGED <<storageVars, tileVars>>

InitIngestVars ==
    /\ tables \in SUBSET Paths
    /\ videos = <<>>
    /\ ingested = None
    /\ complete = TRUE

IdleIngestVars ==
    /\ tables = {}
    /\ videos = <<>>
    /\ ingested = None
    /\ complete = TRUE

\* ======================================================================
\* Specifications
\* ======================================================================

NextStorage ==
    \/ CallInitStorage
    \/ CallGetStorage
    \/ NewVideo
    \/ NewAudio
    \/ CallFfmpegExtract
    \/ VideoExtract
    \/ VideoAudio
    \/ AudioExtract

NextTile == CallTile

NextIngest == CallScannerIngest

InitStorage == InitStorageVars /\ IdleTileVars /\ IdleIngestVars

InitTile == InitStorageVars /\ InitTileVars /\ IdleIngestVars

InitIngest == InitStorageVars /\ IdleTileVars /\ InitIngestVars

SpecStorage == InitStorage /\ [][NextStorage]_vars

SpecTile == InitTile /\ [][NextTile]_vars

SpecIngest == InitIngest /\ [][NextIngest]_vars

\* ======================================================================
\* Properties
\* ======================================================================

ExtractOps == {"ffmpeg_extract", "Video.extract", "Video.audio", "Audio.extract"}

\* C1: every ffmpeg_extract (direct or through Video.extract, Video.audio,
\* Audio.extract) passes the storage check exactly when the latest
\* init_storage call had bucket None; otherwise (a bucket, or no call at all)
\* it raises "Only works on locally stored files right now." with no
\* temporary file created and no ffmpeg process launched.
C1_LocalOnly ==
    [][op' \in ExtractOps =>
         IF lastInit = Some(None)
           THEN ret' # RaisedNotLocal
           ELSE ret' = RaisedNotLocal /\ tempFiles' = tempFiles /\ runs' = <<>>]_vars

\* an extract refused after storage was first local and then moved to a bucket
C1_Witness ==
    /\ op \in ExtractOps
    /\ ret = RaisedNotLocal
    /\ nInits >= 2
    /\ lastInit \in {Some(Some(b)) : b \in Buckets}

HasOutput == args[1].output_path # None \/ args[1].output_ext # None

\* C2 as stated: every ffmpeg_extract that passes the storage check launches
\* ffmpeg exactly once, returns only if that run exited with status zero and
\* ends in an error otherwise.
C2_Original ==
    (op \in ExtractOps /\ ret # RaisedNotLocal) =>
        /\ Len(runs) = 1
        /\ ret.status = "returned" <=> runs[1] = 0

\* C2 amended: no ffmpeg_extract launches ffmpeg more than once, and one that
\* passes the storage check with an output_path or an output_ext launches it
\* exactly once: it returns the output path (the given one, else the
\* temporary file's) iff that run exited with status zero, and raises
\* otherwise.
C2_SingleInvocation ==
    op \in ExtractOps =>
        /\ Len(runs) <= 1
        /\ (ret # RaisedNotLocal /\ HasOutput) =>
              /\ Len(runs) = 1
              /\ ret.status = "returned" <=> runs[1] = 0
              /\ ret.status = "returned" =>
                    ret.value = IF args[1].output_path # None
                                  THEN args[1].output_path[1]
                                  ELSE TmpNames[tempFiles]

\* a single failed run that ended the call in an error
C2_Witness ==
    /\ op \in ExtractOps
    /\ HasOutput
    /\ runs = <<1>>
    /\ ret = Raised("CalledProcessError")

\* C5: get_storage and Video(...) call init_storage() (posix, LOCAL_STORAGE
\* True) only when STORAGE is None and otherwise leave STORAGE and
\* LOCAL_STORAGE as they are; get_storage returns the backend in STORAGE,
\* which is never None.
C5_InitOnce ==
    [][op' \in {"get_storage", "Video"} =>
         /\ IF STORAGE = None
              THEN /\ nInits' = nInits + 1
                   /\ LOCAL_STORAGE' = Some(TRUE)
                   /\ STORAGE' # None
                   /\ STORAGE'[1].config = "posix"
              ELSE /\ STORAGE' = STORAGE
                   /\ LOCAL_STORAGE' = LOCAL_STORAGE
                   /\ nInits' = nInits
         /\ op' = "get_storage" => (ret'.value # None /\ ret'.value = STORAGE')]_vars

\* get_storage handing back the bucket backend of an earlier init_storage(bucket)
C5_Witness ==
    /\ op = "get_storage"
    /\ STORAGE # None
    /\ STORAGE[1].config = "gcs"
    /\ ret.value = STORAGE
    /\ LOCAL_STORAGE = Some(FALSE)

TileDone == tile_pc = "done"
ArgOk(a) == a = None \/ a[1] >= 1

\* C3 as stated: with neither rows nor cols given, tile lays every non-empty
\* list out on a square grid (rows = cols).
C3_Square ==
    (TileDone /\ rows = None /\ cols = None /\ Len(imgs0) >= 1) =>
        /\ tileRet.status = "returned"
        /\ tileRet.rows = tileRet.cols

\* C4: for n >= 1 images and rows / cols each absent or >= 1, the computed
\* grid has rows * cols >= n, exactly rows * cols - n black images are
\* appended to the caller's list after its n images, and the result has
\* `rows` rows of `cols` cells holding the list in row-major order.
C4_PadBlack ==
    (TileDone /\ Len(imgs0) >= 1 /\ ArgOk(rows) /\ ArgOk(cols)) =>
        LET n == Len(imgs0)
            r == tileRet.rows
            c == tileRet.cols
        IN /\ tileRet.status = "returned"
           /\ r >= 1 /\ c >= 1
           /\ r * c >= n
           /\ Len(imgs) = r * c
           /\ \A k \in 1..n : imgs[k] = imgs0[k]
           /\ \A k \in (n + 1)..(r * c) : imgs[k] = [shape |-> imgs0[1].shape, px |-> 0]
           /\ Len(tileRet.grid) = r
           /\ \A i \in 1..r :
                 /\ Len(tileRet.grid[i]) = c
                 /\ \A j \in 1..c : tileRet.grid[i][j] = imgs[(i - 1) * c + j]

\* a default grid that needed black cells
C4_Witness ==
    /\ TileDone
    /\ rows = None /\ cols = None
    /\ Len(imgs0) >= 1
    /\ tileRet.status = "returned"
    /\ Len(imgs) > Len(imgs0)

\* C6 as stated: with both rows and cols given and 1 <= n <= rows * cols, the
\* result has `rows` rows of `cols` images each.
C6_RequestedGrid ==
    (/\ TileDone
     /\ rows # None /\ cols # None
     /\ Len(imgs0) >= 1
     /\ Len(imgs0) <= rows[1] * cols[1]) =>
        /\ tileRet.status = "returned"
        /\ Len(tileRet.grid) = rows[1]
        /\ \A i \in 1..Len(tileRet.grid) : Len(tileRet.grid[i]) = cols[1]

NoTable(v) == v.path \notin tables

\* C7: scanner_ingest hands db.ingest_videos exactly the videos without a
\* table at the time of the call, in input order, and makes no call when
\* there is none; so nothing that has a table is ingested again, and a call
\* repeating the videos of a call whose ingest created all its tables
\* ingests nothing.
C7_IngestMissingOnly ==
    [][LET missing == SelectSeq(videos', NoTable)
       IN /\ IF missing = <<>>
               THEN ingested' = None /\ tables' = tables
               ELSE /\ ingested' # None
                    /\ Len(ingested'[1]) = Len(missing)
                    /\ \A i \in 1..Len(missing) :
                          /\ ingested'[1][i] = <<missing[i].path, missing[i].path>>
                          /\ ingested'[1][i][1] \notin tables
          /\ (complete /\ videos' = videos) => ingested' = None]_vars

\* a call that skipped a video with a table and ingested one without
C7_Witness ==
    /\ ingested # None
    /\ Len(ingested[1]) >= 1
    /\ Len(ingested[1]) < Len(videos)
    /\ complete

====
